---- MODULE Spec2Model ----
(***************************************************************************)
(* Verification model of the blastfurnace compiler front-end skeleton:     *)
(*   - the path model (blastf_name::module::Path, name::ModulePath),       *)
(*   - the AST node model and the Visitor / Visitable traversal protocol   *)
(*     (blastf_ast::visitor).                                              *)
(*   - the resolved names (blastf_name::name::Name, name::name::Name),     *)
(*   - the display form of the instruction files (blastf_hmasm::ast).      *)
(* The specifications share the variables: SpecPath drives one path object *)
(* through its methods; SpecPair drives a Path and a ModulePath through    *)
(* the same calls; SpecName builds and displays Names; SpecHmasm displays  *)
(* instruction files; Spec drives one top-level visit over a tree, one     *)
(* apply call per step, with a visitor that leaves the nodes alone, and    *)
(* SpecMut does so with a visitor that rewrites nodes.                     *)
(***************************************************************************)
EXTENDS Integers, Sequences, FiniteSets, TLC

VARIABLES
    obj,        \* which path type the object under test is: "Path" | "ModulePath"
    segments,   \* the object's segments: Vec<PathSegment>
    panicked,   \* TRUE once an operation on the path has panicked
    lastOp,     \* the last operation applied to the path, with its arguments
    before,     \* the segments before the last operation
    tree,       \* the AST the traversal runs over (owned by the running pass)
    visitor,    \* the visitor driven over the tree
    stack,      \* the call stack of visit frames that are inside their child loop
    log,        \* addresses of the nodes apply has been called on, in call order
    cut,        \* addresses where apply returned continue-into-children = false
    returned,   \* the visit calls that have returned Ok: [addr, val]
    failure,    \* the apply call that returned Err, if any: [addr, err]
    result,     \* what the top-level visit returned, or Running
    orig,       \* the tree as it was when the top-level visit was called
    seen,       \* the nodes apply was called on, as they were at the call
    rewrote,    \* for each apply call, whether it rewrote its node
    modpath,    \* a ModulePath driven in step with the Path: its segments,
                \* whether it panicked, and what its last getter returned
    names,      \* the Names built so far, each with the arguments of Name::new
    file,       \* the instruction file to display
    shown       \* the output of the last Display::fmt call

pathVars == <<obj, segments, panicked, lastOp, before>>
visitVars == <<tree, visitor, stack, log, cut, returned, failure, result,
               orig, seen, rewrote>>
auxVars == <<names, file, shown>>
vars == <<obj, segments, panicked, lastOp, before,
          tree, visitor, stack, log, cut, returned, failure, result,
          orig, seen, rewrote, modpath, names, file, shown>>

(***************************************************************************)
(* Bounds                                                                  *)
(***************************************************************************)
\* longest path the path object may grow to
MaxSegs == 3
\* longest path passed to extend
MaxOther == 2
\* longest Vec of children (segments, fields, inputs, stmts) in the trees
Width == 2
\* largest id given to Name::new
MaxId == 11
\* most Names built in one run
MaxNames == 2
\* longest Vec of instructions in a block of an instruction file
MaxInstrs == 2
\* longest Vec of functions in an instruction file
MaxFns == 2

(***************************************************************************)
(* Path model: blastf_name/src/module.rs and name/src/module_path.rs       *)
(***************************************************************************)
\* identifier strings, as sequences of characters
Idents == { <<"a">>, <<"b", "c">> }

\* blastf_name::module: struct PathSegment { ident: String }
NamePathSegment(id) == [ident |-> id]
\* struct ModulePathSegment { ident: String }
ModulePathSegment(id) == [ident |-> id]

Segs == { NamePathSegment(id) : id \in Idents }

RECURSIVE SeqsUpTo(_, _)
SeqsUpTo(S, n) ==
    IF n = 0 THEN { <<>> }
    ELSE LET shorter == SeqsUpTo(S, n - 1)
         IN  shorter \cup { Append(s, x) : s \in { t \in shorter : Len(t) = n - 1 }, x \in S }

\* the value of a call that panics (no identifier: identifiers are
\* sequences of single characters)
Panic == <<"panic">>

NoOp == [op |-> "new", ident |-> <<>>, other |-> <<>>]

\* Vec::push
VecPushFront(v, x) == <<x>> \o v
VecPush(v, x) == Append(v, x)

\* Vec::remove(0) on a non-empty vector
VecRemoveLast(v) == SubSeq(v, 1, Len(v) - 1)
VecRemove0(v) == SubSeq(v, 2, Len(v))

\* Vec::extend
VecExtend(v, other) == v \o other

\* Path::get_root / ModulePath::get_root: segments.first().unwrap().ident
get_rootOrDefault(segs) == IF segs = <<>> THEN <<>> ELSE segs[1].ident
get_root(segs) == IF segs = <<>> THEN Panic ELSE segs[1].ident

\* Path::get_last / ModulePath::get_last: segments.last().unwrap().ident
get_last(segs) == IF segs = <<>> THEN Panic ELSE segs[Len(segs)].ident

\* Display::fmt: for (i, segment) in enumerate { if i > 0 { "::" }; ident }
RECURSIVE FmtLoopTrailing(_, _, _)
FmtLoopTrailing(segs, i, out) ==
    IF i >= Len(segs) THEN out
    ELSE FmtLoopTrailing(segs, i + 1, out \o segs[i + 1].ident \o <<":", ":">>)
RECURSIVE FmtLoop(_, _, _)
FmtLoop(segs, i, out) ==
    IF i >= Len(segs) THEN out
    ELSE FmtLoop(segs, i + 1,
                 (IF i > 0 THEN out \o <<":", ":">> ELSE out) \o segs[i + 1].ident)

Display(segs) == FmtLoop(segs, 0, <<>>)

\* Path::new / ModulePath::new, for either type
InitPath ==
    /\ obj \in {"Path", "ModulePath"}
    /\ segments = <<>>
    /\ panicked = FALSE
    /\ lastOp = NoOp
    /\ before = <<>>

\* pub fn push(&mut self, ident: String)
push(type, ident) ==
    /\ ~panicked
    /\ Len(segments) < MaxSegs
    /\ segments' = VecPush(segments, IF type = "Path" THEN NamePathSegment(ident)
                                     ELSE ModulePathSegment(ident))
    /\ lastOp' = [op |-> "push", ident |-> ident, other |-> <<>>]
    /\ before' = segments
    /\ UNCHANGED <<obj, panicked>>
    /\ UNCHANGED visitVars
    /\ UNCHANGED auxVars

\* pub fn pop_root(&mut self): Vec::remove(0) panics on an empty vector
pop_root(type) ==
    /\ ~panicked
    /\ IF segments = <<>>
       THEN /\ panicked' = TRUE
            /\ UNCHANGED segments
       ELSE /\ segments' = VecRemove0(segments)
            /\ UNCHANGED panicked
    /\ lastOp' = [op |-> "pop_root", ident |-> <<>>, other |-> <<>>]
    /\ before' = segments
    /\ UNCHANGED obj
    /\ UNCHANGED visitVars
    /\ UNCHANGED auxVars

\* pub fn extend(&mut self, other: Path)
extend(type, other) ==
    /\ ~panicked
    /\ Len(segments) + Len(other) <= MaxSegs
    /\ segments' = VecExtend(segments, other)
    /\ lastOp' = [op |-> "extend", ident |-> <<>>, other |-> other]
    /\ before' = segments
    /\ UNCHANGED <<obj, panicked>>
    /\ UNCHANGED visitVars
    /\ UNCHANGED auxVars

\* a call of get_root() or get_last(): it returns the identifier or panics
getter(op, value) ==
    /\ ~panicked
    /\ panicked' = (value = Panic)
    /\ lastOp' = [op |-> op, ident |-> value, other |-> <<>>]
    /\ before' = segments
    /\ UNCHANGED <<obj, segments>>
    /\ UNCHANGED visitVars
    /\ UNCHANGED auxVars

\* impl Path
Path_push ==
    \E ident \in Idents : obj = "Path" /\ push("Path", ident) /\ UNCHANGED modpath
Path_pop_root == obj = "Path" /\ pop_root("Path") /\ UNCHANGED modpath
Path_extend ==
    \E other \in SeqsUpTo(Segs, MaxOther) :
        obj = "Path" /\ extend("Path", other) /\ UNCHANGED modpath
Path_get_root ==
    obj = "Path" /\ getter("get_root", get_root(segments)) /\ UNCHANGED modpath
Path_get_last ==
    obj = "Path" /\ getter("get_last", get_last(segments)) /\ UNCHANGED modpath
\* impl ModulePath
ModulePath_push ==
    \E ident \in Idents :
        obj = "ModulePath" /\ push("ModulePath", ident) /\ UNCHANGED modpath
ModulePath_pop_root == obj = "ModulePath" /\ pop_root("ModulePath") /\ UNCHANGED modpath
ModulePath_extend ==
    \E other \in SeqsUpTo(Segs, MaxOther) :
        obj = "ModulePath" /\ extend("ModulePath", other) /\ UNCHANGED modpath
ModulePath_get_root ==
    obj = "ModulePath" /\ getter("get_root", get_root(segments)) /\ UNCHANGED modpath
ModulePath_get_last ==
    obj = "ModulePath" /\ getter("get_last", get_last(segments)) /\ UNCHANGED modpath

(***************************************************************************)
(* AST node model: ast.rs.  A node is a record carrying its kind in the    *)
(* field "node" and the fields of the Rust struct; an enum value or an     *)
(* Option is a record [variant, payload].  A node is identified by its     *)
(* address: the sequence of field selections leading to it from the root.  *)
(***************************************************************************)
None == [variant |-> "None"]
Some(x) == [variant |-> "Some", payload |-> x]

Ident(name) == [node |-> "Ident", name |-> name]
PathSegment(name) == [node |-> "PathSegment", ident |-> Ident(name)]
Path(segs) == [node |-> "Path", segments |-> segs]
\* kind: DefinitionKind::Struct(Struct) | DefinitionKind::Fn(Box<Fn>)
Definition(name, k) ==
    [node |-> "Definition", ident |-> Ident(name), kind |-> [variant |-> k.node, payload |-> k]]
\* kind: TyKind::Void | Int | Float | Bool | String
Ty(k) == [node |-> "Ty", kind |-> [variant |-> k]]
\* kind: TyKind::Path(Path)
TyPath(p) == [node |-> "Ty", kind |-> [variant |-> "Path", payload |-> p]]
Struct(fs) == [node |-> "Struct", fields |-> fs]
StructField(name, t) == [node |-> "StructField", ident |-> Ident(name), ty |-> t]
\* body: Option<P<Block>>
Fn(s, b) == [node |-> "Fn", sig |-> s, body |-> b]
FnSig(h, d) == [node |-> "FnSig", header |-> h, decl |-> d]
FnHeader(r, c) == [node |-> "FnHeader", rec |-> r, constness |-> c]
FnDecl(ins, out) == [node |-> "FnDecl", inputs |-> ins, output |-> out]
Param(t) == [node |-> "Param", ty |-> t]
\* kind: ExprKind::Variable(Path) | Constant(Constant) | Block(Block)
Expr(k) ==
    [node |-> "Expr",
     kind |-> [variant |-> (IF k.node = "Path" THEN "Variable" ELSE k.node), payload |-> k]]
Constant(k) == [node |-> "Constant", kind |-> [variant |-> k]]
\* ty: Option<Ty>;  kind: LocalBindKind::Decl | Init(Expr)
LocalBindDecl(name, t) ==
    [node |-> "LocalBind", ident |-> Ident(name), ty |-> t, kind |-> [variant |-> "Decl"]]
LocalBindInit(name, t, e) ==
    [node |-> "LocalBind", ident |-> Ident(name), ty |-> t,
     kind |-> [variant |-> "Init", payload |-> e]]
\* kind: StatementKind::Let(P<LocalBind>) | Def(P<Definition>) | Expr(P<Expr>)
Statement(k) ==
    [node |-> "Statement",
     kind |-> [variant |-> (CASE k.node = "LocalBind" -> "Let"
                              [] k.node = "Definition" -> "Def"
                              [] OTHER -> "Expr"),
               payload |-> k]]
Block(ss) == [node |-> "Block", stmts |-> ss]

\* one step of an address: a field, and for a Vec field the 1-based position
Sel(f) == [field |-> f, index |-> 0]
Elem(f, i) == [field |-> f, index |-> i]
Elems(f, v) == [i \in 1..Len(v) |-> Elem(f, i)]

\* what a step selects in a node that has no such field, element or payload
Missing == [node |-> "Missing"]

\* the node a step selects: self.field, self.field[i], or the value an enum
\* variant or a Some wraps
Child(self, step) ==
    IF step.field \notin DOMAIN self THEN Missing
    ELSE LET v == self[step.field]
         IN  IF step.index > 0
             THEN IF step.index <= Len(v) THEN v[step.index] ELSE Missing
             ELSE IF "variant" \in DOMAIN v
             THEN IF "payload" \in DOMAIN v THEN v.payload ELSE Missing
             ELSE v

RECURSIVE NodeAt(_, _)
NodeAt(t, addr) ==
    IF addr = <<>> \/ t = Missing THEN t ELSE NodeAt(Child(t, Head(addr)), Tail(addr))

\* the tree with the node at an address assigned through its &mut reference
RECURSIVE ReplaceAt(_, _, _)
ReplaceAt(t, addr, n) ==
    IF addr = <<>> THEN n
    ELSE LET step == Head(addr)
             v == t[step.field]
         IN  IF step.index > 0
             THEN [t EXCEPT ![step.field] =
                      [v EXCEPT ![step.index] = ReplaceAt(v[step.index], Tail(addr), n)]]
             ELSE IF "variant" \in DOMAIN v
             THEN [t EXCEPT ![step.field] =
                      [v EXCEPT !.payload = ReplaceAt(v.payload, Tail(addr), n)]]
             ELSE [t EXCEPT ![step.field] = ReplaceAt(v, Tail(addr), n)]

(***************************************************************************)
(* Traversal protocol: visitor.rs                                          *)
(***************************************************************************)
\* Result<_, _>
Ok(x) == [variant |-> "Ok", value |-> x]
Err(e) == [variant |-> "Err", error |-> e]
\* the top-level visit has not returned yet
Running == [variant |-> "Running"]
NoFailure == [variant |-> "None"]

\* the error values (type V) a visitor reports
Errors == {"E1", "E2"}

\* What the visitor decides at one apply call.  Whether it fails, whether
\* it continues and whether it rewrites the node may depend on its internal
\* state, so they are free at every call; the payload (type K) follows the
\* visitor's payload policy.
Choices ==
    [fail : {FALSE}, continue : BOOLEAN, err : {"-"}, rewrite : BOOLEAN]
        \cup [fail : {TRUE}, continue : {FALSE}, err : Errors, rewrite : BOOLEAN]

LeafKinds == {"Ident", "PathSegment", "FnHeader", "Constant"}

\* a visitor that overrides apply, by payload policy and by whether it
\* rewrites nodes
CustomVisitor(p, w) == [impl |-> "custom", payload |-> p, rewrites |-> w]
\* a visitor that does not override apply
DefaultVisitor == [impl |-> "default", payload |-> "none", rewrites |-> FALSE]

\* the visitors that leave the nodes alone
Visitors == { CustomVisitor(p, FALSE) : p \in {"none", "kind", "leaf"} } \cup { DefaultVisitor }
\* the visitors that rewrite nodes
Rewriters == { CustomVisitor(p, TRUE) : p \in {"none", "kind"} }

PayloadOf(v, self) ==
    CASE v.payload = "none" -> None
      [] v.payload = "kind" -> Some(self.node)
      [] v.payload = "leaf" -> IF self.node \in LeafKinds THEN Some(self.node) ELSE None

\* the provided method of the trait: fn apply(..) { return Ok((true, None)); }
DefaultApplyStop == Ok(<<FALSE, None>>)
DefaultApply == Ok(<<TRUE, None>>)

\* Visitor::apply, as the trait provides it or as a concrete visitor
\* implements it: GenericVisitApplyResult<K, V> = Result<(bool, Option<K>), V>
apply(v, self, c) ==
    IF v.impl = "default" THEN DefaultApply
    ELSE IF c.fail THEN Err(c.err)
    ELSE Ok(<<c.continue, PayloadOf(v, self)>>)

\* what a rewriting visitor assigns to the node behind the &mut reference
\* apply receives: a Ty changes between Path and non-Path, an Fn loses or
\* gains its body, a LocalBind changes between Init and Decl, a Block gets
\* other statements, a Constant another kind
Rewrite(self) ==
    CASE self.node = "Ty" ->
             IF self.kind.variant = "Path" THEN Ty("Void")
             ELSE TyPath(Path(<<PathSegment("r")>>))
      [] self.node = "Fn" ->
             IF self.body.variant = "Some" THEN [self EXCEPT !.body = None]
             ELSE [self EXCEPT !.body = Some(Block(<<>>))]
      [] self.node = "LocalBind" ->
             IF self.kind.variant = "Init" THEN [self EXCEPT !.kind = [variant |-> "Decl"]]
             ELSE [self EXCEPT !.kind = [variant |-> "Init",
                                         payload |-> Expr(Constant("Bool"))]]
      [] self.node = "Block" ->
             [self EXCEPT !.stmts = <<Statement(LocalBindDecl("z", None))>>]
      [] self.node = "Constant" ->
             Constant(IF self.kind.variant = "Int" THEN "Bool" ELSE "Int")
      [] OTHER -> self

\* the node as apply leaves it
Mutated(v, self, c) ==
    IF v.impl = "custom" /\ v.rewrites /\ c.rewrite THEN Rewrite(self) ELSE self

\* The children each impl of Visitable::visit recurses into, in call order,
\* given the flag apply returned.
PathVisit(self, visit_result) ==
    IF visit_result THEN Elems("segments", self.segments) ELSE <<>>

DefinitionVisit(self, visit_result) ==
    IF visit_result
    THEN CASE self.kind.variant = "Struct" -> <<Sel("kind")>>
           [] self.kind.variant = "Fn" -> <<Sel("kind")>>
    ELSE <<>>

TyVisitLeaf(self, visit_result) == <<>>
TyVisit(self, visit_result) ==
    IF visit_result
    THEN CASE self.kind.variant = "Path" -> <<Sel("kind")>>
           [] OTHER -> <<>>
    ELSE <<>>

StructVisit(self, visit_result) ==
    IF visit_result THEN Elems("fields", self.fields) ELSE <<>>

StructFieldVisit(self, visit_result) ==
    IF visit_result THEN <<Sel("ident"), Sel("ty")>> ELSE <<>>

FnVisitBodyOnly(self, visit_result) ==
    IF visit_result /\ self.body.variant = "Some" THEN <<Sel("sig"), Sel("body")>> ELSE <<>>
FnVisit(self, visit_result) ==
    IF visit_result
    THEN <<Sel("sig")>> \o (IF self.body.variant = "Some" THEN <<Sel("body")>> ELSE <<>>)
    ELSE <<>>

FnSigVisit(self, visit_result) ==
    IF visit_result THEN <<Sel("header"), Sel("decl")>> ELSE <<>>

FnDeclVisit(self, visit_result) ==
    IF visit_result THEN Elems("inputs", self.inputs) ELSE <<>>

ParamVisit(self, visit_result) ==
    IF visit_result THEN <<Sel("ty")>> ELSE <<>>

ExprVisit(self, visit_result) ==
    IF visit_result
    THEN CASE self.kind.variant = "Constant" -> <<Sel("kind")>>
           [] self.kind.variant = "Variable" -> <<Sel("kind")>>
           [] self.kind.variant = "Block" -> <<Sel("kind")>>
    ELSE <<>>

LocalBindVisitDecl(self, visit_result) == <<>>
LocalBindVisit(self, visit_result) ==
    IF visit_result
    THEN CASE self.kind.variant = "Decl" -> <<>>
           [] self.kind.variant = "Init" -> <<Sel("kind")>>
    ELSE <<>>

StatementVisitAlways(self, visit_result) == <<Sel("kind")>>
StatementVisit(self, visit_result) ==
    IF visit_result
    THEN CASE self.kind.variant = "Let" -> <<Sel("kind")>>
           [] self.kind.variant = "Def" -> <<Sel("kind")>>
           [] self.kind.variant = "Expr" -> <<Sel("kind")>>
    ELSE <<>>

BlockVisit(self, visit_result) ==
    IF visit_result THEN Elems("stmts", self.stmts) ELSE <<>>

\* dispatch on the node kind; the leaf impls recurse into nothing
VisitChildren(self, visit_result) ==
    CASE self.node = "Path" -> PathVisit(self, visit_result)
      [] self.node = "Definition" -> DefinitionVisit(self, visit_result)
      [] self.node = "Ty" -> TyVisit(self, visit_result)
      [] self.node = "Struct" -> StructVisit(self, visit_result)
      [] self.node = "StructField" -> StructFieldVisit(self, visit_result)
      [] self.node = "Fn" -> FnVisit(self, visit_result)
      [] self.node = "FnSig" -> FnSigVisit(self, visit_result)
      [] self.node = "FnDecl" -> FnDeclVisit(self, visit_result)
      [] self.node = "Param" -> ParamVisit(self, visit_result)
      [] self.node = "Expr" -> ExprVisit(self, visit_result)
      [] self.node = "LocalBind" -> LocalBindVisit(self, visit_result)
      [] self.node = "Statement" -> StatementVisit(self, visit_result)
      [] self.node = "Block" -> BlockVisit(self, visit_result)
      [] OTHER -> <<>>

\* the `?` after a call: does the caller return the callee's result at once?
TryIgnoreErr(out) == FALSE
Try(out) == out.variant = "Err"

\* the value a visit returns after its child loop: Ok(res); the value `out`
\* of the last child call has been dropped
FrameReturnChild(res, out) == out.value
FrameReturn(res, out) == res

\* The visit of the node at address a has returned `out` to the frame on top
\* of stk: the callers run on until the next apply call or until the
\* top-level visit returns.
RECURSIVE Resume(_, _, _, _)
Resume(stk, a, out, rets) ==
    LET rets1 == IF out.variant = "Ok"
                 THEN rets \cup {[addr |-> a, val |-> out.value]}
                 ELSE rets
    IN  IF stk = <<>>
        THEN [stack |-> <<>>, result |-> out, returned |-> rets1]
        ELSE LET top == stk[Len(stk)]
                 below == SubSeq(stk, 1, Len(stk) - 1)
                 rest == Tail(top.todo)
             IN  IF Try(out)
                 THEN Resume(below, top.addr, out, rets1)
                 ELSE IF rest = <<>>
                 THEN Resume(below, top.addr, Ok(FrameReturn(top.res, out)), rets1)
                 ELSE [stack |-> Append(below, [top EXCEPT !.todo = rest]),
                       result |-> Running,
                       returned |-> rets1]

\* the node the next visit call is made on: the root at the start, then the
\* next child of the innermost frame
PendingSelf ==
    IF stack = <<>> THEN <<>> ELSE stack[Len(stack)].addr
Pending ==
    IF stack = <<>> THEN <<>>
    ELSE Append(stack[Len(stack)].addr, Head(stack[Len(stack)].todo))

\* the visit call that is made next is on a node of this kind
Calls(kind) == result = Running /\ NodeAt(tree, Pending).node = kind

\* visit reads self after apply has returned: the match on self.kind and
\* the loops over self's Vecs come after the apply call
SelfBeforeApply(old, new) == old
SelfAfterApply(old, new) == new

\* the ? operator returns the failure to the caller; nothing is undone
UnwindRestoring(t, o) == o
Unwind(t, o) == t

\* One call of visit on the pending node, of the given kind: the apply call,
\* and the control flow up to the next visit call.
Visit(kind, c) ==
    /\ LET a == Pending
           old == NodeAt(tree, a)
           r == apply(visitor, old, c)
           new == Mutated(visitor, old, c)
           self == SelfAfterApply(old, new)
       IN  /\ log' = Append(log, a)
           /\ seen' = Append(seen, old)
           /\ rewrote' = Append(rewrote, new # old)
           /\ IF r.variant = "Err"
              THEN LET next == Resume(stack, a, r, returned)
                   IN  /\ failure' = [variant |-> "Some", addr |-> a, err |-> r.error]
                       /\ stack' = next.stack
                       /\ result' = next.result
                       /\ returned' = next.returned
                       /\ tree' = Unwind(ReplaceAt(tree, a, new), orig)
                       /\ UNCHANGED cut
              ELSE LET visit_result == r.value[1]
                       res == r.value[2]
                       todo == VisitChildren(self, visit_result)
                       next == Resume(stack, a, Ok(res), returned)
                   IN  /\ tree' = ReplaceAt(tree, a, new)
                       /\ cut' = IF ~visit_result /\ kind \notin LeafKinds
                                 THEN cut \cup {a} ELSE cut
                       /\ IF todo = <<>>
                          THEN /\ stack' = next.stack
                               /\ result' = next.result
                               /\ returned' = next.returned
                          ELSE /\ stack' = Append(stack, [addr |-> a, res |-> res, todo |-> todo])
                               /\ UNCHANGED <<result, returned>>
                       /\ UNCHANGED failure
    /\ UNCHANGED <<visitor, orig>>
    /\ UNCHANGED pathVars
    /\ UNCHANGED modpath
    /\ UNCHANGED auxVars

VisitIdent == \E c \in Choices : Calls("Ident") /\ Visit("Ident", c)
VisitPath == \E c \in Choices : Calls("Path") /\ Visit("Path", c)
VisitPathSegment == \E c \in Choices : Calls("PathSegment") /\ Visit("PathSegment", c)
VisitDefinition == \E c \in Choices : Calls("Definition") /\ Visit("Definition", c)
VisitTy == \E c \in Choices : Calls("Ty") /\ Visit("Ty", c)
VisitStruct == \E c \in Choices : Calls("Struct") /\ Visit("Struct", c)
VisitStructField == \E c \in Choices : Calls("StructField") /\ Visit("StructField", c)
VisitFn == \E c \in Choices : Calls("Fn") /\ Visit("Fn", c)
VisitFnSig == \E c \in Choices : Calls("FnSig") /\ Visit("FnSig", c)
VisitFnHeader == \E c \in Choices : Calls("FnHeader") /\ Visit("FnHeader", c)
VisitFnDecl == \E c \in Choices : Calls("FnDecl") /\ Visit("FnDecl", c)
VisitParam == \E c \in Choices : Calls("Param") /\ Visit("Param", c)
VisitExpr == \E c \in Choices : Calls("Expr") /\ Visit("Expr", c)
VisitConstant == \E c \in Choices : Calls("Constant") /\ Visit("Constant", c)
VisitLocalBind == \E c \in Choices : Calls("LocalBind") /\ Visit("LocalBind", c)
VisitStatement == \E c \in Choices : Calls("Statement") /\ Visit("Statement", c)
VisitBlock == \E c \in Choices : Calls("Block") /\ Visit("Block", c)

(***************************************************************************)
(* The trees the traversal is run over                                     *)
(***************************************************************************)
Segments(w) == [i \in 1..w |-> PathSegment("s")]
TyAt(i) == IF i % 2 = 1 THEN TyPath(Path(Segments(Width))) ELSE Ty("Int")
FnDeclTree(w) == FnDecl([i \in 1..w |-> Param(TyAt(i))], TyPath(Path(Segments(1))))
FnTree(w, body) == Fn(FnSig(FnHeader(FALSE, TRUE), FnDeclTree(w)), body)
StructTree(w) == Struct([i \in 1..w |-> StructField("f", TyAt(i))])
LetInit == LocalBindInit("x", Some(Ty("Bool")), Expr(Constant("Int")))
LetDecl == LocalBindDecl("y", Some(Ty("Float")))
StmtAt(i) ==
    CASE i % 3 = 1 -> Statement(LetInit)
      [] i % 3 = 2 -> Statement(Expr(Path(Segments(1))))
      [] OTHER -> Statement(LetDecl)
BlockTree(w) == Block([i \in 1..w |-> StmtAt(i)])

\* fn f(..) -> p { .. }  followed by a statement
FnProgram(w) ==
    Block(<<Statement(Definition("f", FnTree(w, Some(BlockTree(w))))),
            Statement(Expr(Constant("Bool")))>>)
\* fn g(..) -> p;  (declaration only) followed by  let y: float;
DeclProgram(w) ==
    Block(<<Statement(Definition("g", FnTree(w, None))), Statement(LetDecl)>>)
\* struct S { .. }
StructProgram(w) == Definition("S", StructTree(w))
\* { { .. } }
NestedBlock(w) == Expr(Block(<<Statement(Expr(BlockTree(w)))>>))
\* { let x = 5; }
LetProgram == Block(<<Statement(LocalBindInit("x", None, Expr(Constant("Int"))))>>)

Trees ==
    { FnProgram(w) : w \in 0..Width }
        \cup { DeclProgram(w) : w \in 0..Width }
        \cup { StructProgram(w) : w \in 0..Width }
        \cup { NestedBlock(w) : w \in 0..Width }
        \cup { LetProgram }

(***************************************************************************)
(* Specifications                                                          *)
(***************************************************************************)
NoTree == Block(<<>>)
NoVisitor == DefaultVisitor
NoModPath == [segments |-> <<>>, panicked |-> FALSE, ret |-> <<>>]
NoFile == [path |-> <<>>, functions |-> <<>>]

\* the variables a specification does not use
IdlePath ==
    /\ obj = "Path"
    /\ segments = <<>>
    /\ panicked = FALSE
    /\ lastOp = NoOp
    /\ before = <<>>

IdleVisit ==
    /\ tree = NoTree
    /\ visitor = NoVisitor
    /\ stack = <<>>
    /\ log = <<>>
    /\ cut = {}
    /\ returned = {}
    /\ failure = NoFailure
    /\ result = Ok(None)
    /\ orig = NoTree
    /\ seen = <<>>
    /\ rewrote = <<>>

IdleAux ==
    /\ names = <<>>
    /\ file = NoFile
    /\ shown = [subject |-> 0, text |-> <<>>]

\* a top-level visit is about to be called on the root of a tree
InitVisit ==
    /\ tree \in Trees
    /\ visitor \in Visitors
    /\ stack = <<>>
    /\ log = <<>>
    /\ cut = {}
    /\ returned = {}
    /\ failure = NoFailure
    /\ result = Running
    /\ orig = tree
    /\ seen = <<>>
    /\ rewrote = <<>>

Init ==
    /\ InitVisit
    /\ IdlePath
    /\ modpath = NoModPath
    /\ IdleAux

Next ==
    \/ VisitIdent
    \/ VisitPath
    \/ VisitPathSegment
    \/ VisitDefinition
    \/ VisitTy
    \/ VisitStruct
    \/ VisitStructField
    \/ VisitFn
    \/ VisitFnSig
    \/ VisitFnHeader
    \/ VisitFnDecl
    \/ VisitParam
    \/ VisitExpr
    \/ VisitConstant
    \/ VisitLocalBind
    \/ VisitStatement
    \/ VisitBlock

Spec == Init /\ [][Next]_vars

\* the kinds of node visit is implemented for
NodeKinds ==
    {"Ident", "Path", "PathSegment", "Definition", "Ty", "Struct", "StructField", "Fn",
     "FnSig", "FnHeader", "FnDecl", "Param", "Expr", "Constant", "LocalBind", "Statement",
     "Block"}

\* a visit call on a node is pending: the condition under which an action
\* of Next is enabled
CallPending == result = Running /\ NodeAt(tree, Pending).node \in NodeKinds

\* the pending visit call is made: every action of Next is such a step
VisitCall == result = Running /\ log' = Append(log, Pending)

\* visit is sequential code: while the top-level visit has not returned,
\* the pending visit call is made, given that apply returns
SpecLive == Init /\ [][Next]_vars /\ WF_log(VisitCall)

\* the trees a rewriting visitor is run over
MutTrees ==
    { FnProgram(1), DeclProgram(1), StructProgram(Width), NestedBlock(Width), LetProgram }

\* a top-level visit with a visitor that rewrites nodes is about to be called
InitMut ==
    /\ tree \in MutTrees
    /\ visitor \in Rewriters
    /\ stack = <<>>
    /\ log = <<>>
    /\ cut = {}
    /\ returned = {}
    /\ failure = NoFailure
    /\ result = Running
    /\ orig = tree
    /\ seen = <<>>
    /\ rewrote = <<>>
    /\ IdlePath
    /\ modpath = NoModPath
    /\ IdleAux

SpecMut == InitMut /\ [][Next]_vars

InitPathSpec ==
    /\ InitPath
    /\ IdleVisit
    /\ modpath = NoModPath
    /\ IdleAux

NextPath ==
    \/ Path_push
    \/ Path_pop_root
    \/ Path_extend
    \/ Path_get_root
    \/ Path_get_last
    \/ ModulePath_push
    \/ ModulePath_pop_root
    \/ ModulePath_extend
    \/ ModulePath_get_root
    \/ ModulePath_get_last

SpecPath == InitPathSpec /\ [][NextPath]_vars

(***************************************************************************)
(* Definitions the properties are stated with                              *)
(***************************************************************************)
\* b is the address of a node strictly below the node at address a
Descendant(a, b) == Len(b) > Len(a) /\ SubSeq(b, 1, Len(a)) = a

Logged(a) == \E i \in 1..Len(log) : log[i] = a
Returned(a) == \E r \in returned : r.addr = a
Position(a) == CHOOSE i \in 1..Len(log) : log[i] = a

\* The children of a node as the node table of the specification lists them
\* (section 3, column "Children"), in the order given there.
TableChildren(self) ==
    CASE self.node = "Path" -> Elems("segments", self.segments)
      [] self.node = "Definition" -> <<Sel("kind")>>
      [] self.node = "Ty" -> IF self.kind.variant = "Path" THEN <<Sel("kind")>> ELSE <<>>
      [] self.node = "Struct" -> Elems("fields", self.fields)
      [] self.node = "StructField" -> <<Sel("ident"), Sel("ty")>>
      [] self.node = "Fn" ->
            <<Sel("sig")>> \o (IF self.body.variant = "Some" THEN <<Sel("body")>> ELSE <<>>)
      [] self.node = "FnSig" -> <<Sel("header"), Sel("decl")>>
      [] self.node = "FnDecl" -> Elems("inputs", self.inputs) \o <<Sel("output")>>
      [] self.node = "Param" -> <<Sel("ty")>>
      [] self.node = "Expr" -> <<Sel("kind")>>
      [] self.node = "LocalBind" ->
            <<Sel("ident")>>
                \o (IF self.ty.variant = "Some" THEN <<Sel("ty")>> ELSE <<>>)
                \o (IF self.kind.variant = "Init" THEN <<Sel("kind")>> ELSE <<>>)
      [] self.node = "Statement" -> <<Sel("kind")>>
      [] self.node = "Block" -> Elems("stmts", self.stmts)
      [] OTHER -> <<>>

\* depth-first pre-order of the whole subtree at address a, by the node table
RECURSIVE PreOrder(_, _), PreOrderSeq(_, _, _)
PreOrder(t, a) == <<a>> \o PreOrderSeq(t, a, TableChildren(NodeAt(t, a)))
PreOrderSeq(t, a, steps) ==
    IF steps = <<>> THEN <<>>
    ELSE PreOrder(t, Append(a, Head(steps))) \o PreOrderSeq(t, a, Tail(steps))

\* the order in which a traversal that descends everywhere except below the
\* addresses in C reaches the nodes visit recurses into
RECURSIVE Walk(_, _, _), WalkSeq(_, _, _, _)
Walk(t, a, C) ==
    <<a>> \o (IF a \in C THEN <<>> ELSE WalkSeq(t, a, VisitChildren(NodeAt(t, a), TRUE), C))
WalkSeq(t, a, steps, C) ==
    IF steps = <<>> THEN <<>>
    ELSE Walk(t, Append(a, Head(steps)), C) \o WalkSeq(t, a, Tail(steps), C)

(***************************************************************************)
(* Properties of the traversal protocol                                    *)
(***************************************************************************)
\* C1 (fail-fast): once apply has returned a failure at some node, the
\* top-level visit has returned exactly that failure and the failing node is
\* the last node apply was ever called on; the visit fails only so.
FailFast ==
    /\ failure.variant = "Some" =>
          /\ result = Err(failure.err)
          /\ stack = <<>>
          /\ log # <<>>
          /\ log[Len(log)] = failure.addr
    /\ result.variant = "Err" => failure.variant = "Some"

\* a failure three levels deep or deeper, with nodes left that a full walk
\* would still have reached
FailFastWitness ==
    /\ failure.variant = "Some"
    /\ Len(failure.addr) >= 3
    /\ tree = FnProgram(Width)
    /\ Len(log) < Len(Walk(tree, <<>>, cut))

\* C2 (short-circuit): apply is called on no descendant of a node where it
\* returned continue = false, and the calls made are those of a walk of the
\* tree in which the cut subtrees have no children.
ShortCircuit ==
    /\ \A a \in cut : \A i \in 1..Len(log) : ~Descendant(a, log[i])
    /\ Len(log) <= Len(Walk(tree, <<>>, cut))
    /\ log = SubSeq(Walk(tree, <<>>, cut), 1, Len(log))
    /\ result.variant = "Ok" => log = Walk(tree, <<>>, cut)

\* a composite node with children was cut, and the walk went on after it
ShortCircuitWitness ==
    /\ result.variant = "Ok"
    /\ \E a \in cut :
          /\ VisitChildren(NodeAt(tree, a), TRUE) # <<>>
          /\ Position(a) < Len(log)

\* C3 (traversal completeness), as claimed: with a visitor that always
\* succeeds and always continues, apply is called exactly once on every node
\* of the tree, in depth-first pre-order of the node table's children.
TraversalComplete ==
    (result.variant = "Ok" /\ cut = {}) => log = PreOrder(tree, <<>>)

\* C4 (FnDecl children), as claimed: when apply on an FnDecl continued and
\* its visit has returned, apply was called on every Param in order and then
\* on the return type Ty, and on the Path of a return type of kind Path.
FnDeclChildren ==
    \A r \in returned :
        LET self == NodeAt(tree, r.addr)
            out == Append(r.addr, Sel("output"))
        IN  (self.node = "FnDecl" /\ r.addr \notin cut) =>
                /\ \A i \in 1..Len(self.inputs) :
                      /\ Logged(Append(r.addr, Elem("inputs", i)))
                      /\ Logged(out)
                      /\ Position(Append(r.addr, Elem("inputs", i))) < Position(out)
                /\ Logged(out)
                /\ (self.output.kind.variant = "Path" /\ out \notin cut) =>
                      Logged(Append(out, Sel("kind")))

\* C5 (LocalBind children), as claimed: when apply on a LocalBind continued
\* and its visit has returned, apply was called on the binding's Identifier,
\* then on its Ty when one is present, then on its initializer Expr.
LocalBindChildren ==
    \A r \in returned :
        LET self == NodeAt(tree, r.addr)
        IN  (self.node = "LocalBind" /\ r.addr \notin cut) =>
                /\ Logged(Append(r.addr, Sel("ident")))
                /\ self.ty.variant = "Some" => Logged(Append(r.addr, Sel("ty")))
                /\ self.kind.variant = "Init" => Logged(Append(r.addr, Sel("kind")))

\* C6 (optional children): below an Fn without body apply is called on no
\* Block, below a LocalBind of kind Decl on no Expr; the signature of such
\* an Fn is still visited, and so is every statement of a Block that was
\* walked to its end.
OptionalChild ==
    /\ \A i \in 1..Len(log) :
          LET a == log[i]
              self == NodeAt(tree, a)
          IN  /\ (self.node = "Fn" /\ self.body.variant = "None") =>
                    /\ \A j \in 1..Len(log) :
                          Descendant(a, log[j]) => NodeAt(tree, log[j]).node # "Block"
                    /\ (Returned(a) /\ a \notin cut) => Logged(Append(a, Sel("sig")))
              /\ (self.node = "LocalBind" /\ self.kind.variant = "Decl") =>
                    \A j \in 1..Len(log) :
                        Descendant(a, log[j]) => NodeAt(tree, log[j]).node # "Expr"
    /\ \A r \in returned :
          LET self == NodeAt(tree, r.addr)
          IN  (self.node = "Block" /\ r.addr \notin cut) =>
                  \A k \in 1..Len(self.stmts) : Logged(Append(r.addr, Elem("stmts", k)))

\* a declaration-only fn and a let without initializer were walked through,
\* and so was the statement after the fn
OptionalChildWitness ==
    /\ result.variant = "Ok"
    /\ tree = DeclProgram(Width)
    /\ cut = {}
    /\ Logged(<<Elem("stmts", 1), Sel("kind"), Sel("kind")>>)
    /\ Logged(<<Elem("stmts", 2), Sel("kind")>>)

\* C7 (payload channel): every visit that returned Ok returned the payload
\* apply produced for that very node, and so did the top-level visit.
PayloadChannel ==
    /\ \A r \in returned : r.val = PayloadOf(visitor, NodeAt(tree, r.addr))
    /\ result.variant = "Ok" =>
          /\ result.value = PayloadOf(visitor, tree)
          /\ Returned(<<>>)

\* the root returned no payload although its descendants produced payloads,
\* some below a node that continued and some at a node that did not
PayloadChannelWitness ==
    /\ result = Ok(None)
    /\ visitor.payload = "leaf"
    /\ cut # {}
    /\ \E r \in returned : r.val # None /\ Len(r.addr) >= 3

(***************************************************************************)
(* Properties of the path model                                            *)
(***************************************************************************)
\* C8 (push): push does not panic; after it get_last() is the pushed
\* segment, and the segments that were there before are unchanged, so that
\* get_root() of a path that was non-empty is unchanged.
PushAppends ==
    lastOp.op = "push" =>
        /\ ~panicked
        /\ Len(segments) = Len(before) + 1
        /\ get_last(segments) = lastOp.ident
        /\ \A i \in 1..Len(before) : segments[i] = before[i]
        /\ before # <<>> => get_root(segments) = get_root(before)

PushAppendsWitness ==
    /\ lastOp.op = "push"
    /\ Len(before) >= 2
    /\ get_root(before) # lastOp.ident
    /\ get_last(before) # lastOp.ident

\* C9 (pop_root): on a path of at least two segments pop_root removes the
\* first segment only: get_root() becomes the former second segment,
\* get_last() is unchanged, the others keep their order, the length drops
\* by one.
PopRootRemovesFirst ==
    (lastOp.op = "pop_root" /\ Len(before) >= 2) =>
        /\ ~panicked
        /\ Len(segments) = Len(before) - 1
        /\ get_root(segments) = before[2].ident
        /\ get_last(segments) = get_last(before)
        /\ \A i \in 1..Len(segments) : segments[i] = before[i + 1]

PopRootWitness ==
    /\ lastOp.op = "pop_root"
    /\ Len(before) >= 3
    /\ before[1] # before[2]
    /\ before[2] # before[3]

\* the segments' identifiers joined by "::"
RECURSIVE Joined(_)
Joined(segs) ==
    IF segs = <<>> THEN <<>>
    ELSE IF Len(segs) = 1 THEN segs[1].ident
    ELSE segs[1].ident \o <<":", ":">> \o Joined(Tail(segs))

Colons(str) == Cardinality({ i \in 1..Len(str) : str[i] = ":" })

\* C10 (extend and display): extend appends other's segments, in order,
\* after the receiver's; get_last() is then other's last segment; the
\* display form is the old segments followed by other's, joined by "::",
\* with no separator at either end: empty for the empty path, and with
\* one "::" fewer than there are segments otherwise.
ExtendDisplay ==
    lastOp.op = "extend" =>
        LET other == lastOp.other
            text == Display(segments)
        IN  /\ ~panicked
            /\ Len(segments) = Len(before) + Len(other)
            /\ \A i \in 1..Len(before) : segments[i] = before[i]
            /\ \A j \in 1..Len(other) : segments[Len(before) + j] = other[j]
            /\ other # <<>> => get_last(segments) = other[Len(other)].ident
            /\ text = Joined(before \o other)
            /\ text = Display(before)
                         \o (IF before # <<>> /\ other # <<>> THEN <<":", ":">> ELSE <<>>)
                         \o Display(other)
            /\ segments = <<>> => text = <<>>
            /\ segments # <<>> =>
                  /\ text[1] # ":"
                  /\ text[Len(text)] # ":"
                  /\ Colons(text) = 2 * (Len(segments) - 1)

ExtendDisplayWitness ==
    /\ lastOp.op = "extend"
    /\ Len(before) >= 1
    /\ Len(lastOp.other) >= 2
    /\ lastOp.other[1] # lastOp.other[2]

\* C11 (empty-path precondition): get_root(), get_last() and pop_root()
\* panic exactly when they are called on a path without segments; a panic
\* returns no value and leaves no segment behind, and on a non-empty path
\* the getters return the first and the last identifier.
EmptyPathPanics ==
    /\ lastOp.op \in {"get_root", "get_last", "pop_root"} => (panicked <=> before = <<>>)
    /\ panicked =>
          /\ lastOp.op \in {"get_root", "get_last", "pop_root"}
          /\ segments = <<>>
          /\ lastOp.op # "pop_root" => lastOp.ident = Panic
    /\ (lastOp.op = "get_root" /\ before # <<>>) => lastOp.ident = before[1].ident
    /\ (lastOp.op = "get_last" /\ before # <<>>) => lastOp.ident = before[Len(before)].ident
    /\ (segments = <<>>) <=> (get_root(segments) = Panic)
    /\ (segments = <<>>) <=> (get_last(segments) = Panic)

\* get_root() panicked on a ModulePath
EmptyPathPanicsWitness ==
    /\ panicked
    /\ lastOp.op = "get_root"
    /\ obj = "ModulePath"

(***************************************************************************)
(* Name model: blastf_name/src/name.rs and name/src/name.rs                *)
(***************************************************************************)
\* the ids given to Name::new: one and two decimal digits
Ids == {0, 9, 10, MaxId}

\* the paths given to Name::new: none, one and two segments
NamePaths ==
    { <<>>,
      <<NamePathSegment(<<"a">>)>>,
      <<NamePathSegment(<<"a">>), NamePathSegment(<<"b", "c">>)>> }

Digits == <<"0", "1", "2", "3", "4", "5", "6", "7", "8", "9">>

\* Display for usize: the decimal digits, most significant first
RECURSIVE Decimal(_)
Decimal(n) ==
    IF n < 10 THEN <<Digits[n + 1]>>
    ELSE Decimal(n \div 10) \o <<Digits[(n % 10) + 1]>>

\* Name::new(ident, path, id) == Name { ident, path, id }
NameNewFresh(ident, path, id) == [ident |-> ident, path |-> path, id |-> 0]
NameNew(ident, path, id) == [ident |-> ident, path |-> path, id |-> id]

\* the accessors ident(), path(), id()
NameIdent(name) == name.ident
NamePath(name) == name.path
NameId(name) == name.id

\* Display for Name: write!(f, "{}::{}_{}", self.path, self.ident, self.id)
NameDisplayNoSep(name) ==
    Display(name.path) \o name.ident \o <<"_">> \o Decimal(name.id)
NameDisplay(name) ==
    Display(name.path) \o <<":", ":">> \o name.ident \o <<"_">> \o Decimal(name.id)

\* a call of Name::new in the given crate; the model records the arguments
Name_new(crate, ident, path, id) ==
    /\ names' = Append(names, [crate |-> crate,
                               args |-> [ident |-> ident, path |-> path, id |-> id],
                               name |-> NameNew(ident, path, id)])
    /\ UNCHANGED <<file, shown, modpath>>
    /\ UNCHANGED pathVars
    /\ UNCHANGED visitVars

\* a call of to_string() on one of the Names of the given crate
Name_fmt(crate, i) ==
    /\ names[i].crate = crate
    /\ shown' = [subject |-> i, text |-> NameDisplay(names[i].name)]
    /\ UNCHANGED <<names, file, modpath>>
    /\ UNCHANGED pathVars
    /\ UNCHANGED visitVars

\* blastf_name::name::Name
blastf_name_Name_new ==
    \E ident \in Idents, path \in NamePaths, id \in Ids :
        Len(names) < MaxNames /\ Name_new("blastf_name", ident, path, id)
blastf_name_Name_fmt ==
    \E i \in 1..MaxNames : i <= Len(names) /\ Name_fmt("blastf_name", i)
\* name::name::Name
name_Name_new ==
    \E ident \in Idents, path \in NamePaths, id \in Ids :
        Len(names) < MaxNames /\ Name_new("name", ident, path, id)
name_Name_fmt ==
    \E i \in 1..MaxNames : i <= Len(names) /\ Name_fmt("name", i)

NothingShown == [subject |-> 0, text |-> <<>>]

InitName ==
    /\ IdlePath
    /\ IdleVisit
    /\ modpath = NoModPath
    /\ names = <<>>
    /\ file = NoFile
    /\ shown = NothingShown

NextName ==
    \/ blastf_name_Name_new
    \/ blastf_name_Name_fmt
    \/ name_Name_new
    \/ name_Name_fmt

SpecName == InitName /\ [][NextName]_vars

\* the number a sequence of decimal digits denotes
RECURSIVE DecimalValue(_)
DecimalValue(ds) ==
    IF ds = <<>> THEN 0
    ELSE 10 * DecimalValue(SubSeq(ds, 1, Len(ds) - 1))
         + (CHOOSE d \in 0..9 : Digits[d + 1] = ds[Len(ds)])

\* C12 (Name display): the display form of a Name built by
\* Name::new(ident, path, id) is the segments of path joined by "::", then
\* "::", then ident, then "_", then the decimal digits of id, and nothing
\* else.
NameDisplayFormat ==
    shown.subject > 0 =>
        LET a == names[shown.subject].args
            text == shown.text
            p == Joined(a.path)
            n == Len(p) + 2 + Len(a.ident) + 1
            ds == SubSeq(text, n + 1, Len(text))
        IN  /\ Len(text) > n
            /\ SubSeq(text, 1, Len(p)) = p
            /\ SubSeq(text, Len(p) + 1, Len(p) + 2) = <<":", ":">>
            /\ SubSeq(text, Len(p) + 3, n - 1) = a.ident
            /\ text[n] = "_"
            /\ \A k \in 1..Len(ds) : \E d \in 0..9 : Digits[d + 1] = ds[k]
            /\ Len(ds) > 1 => ds[1] # "0"
            /\ DecimalValue(ds) = a.id

\* a Name with a path of two segments and a two-digit id was displayed
NameDisplayFormatWitness ==
    /\ shown.subject > 0
    /\ Len(names[shown.subject].args.path) = 2
    /\ names[shown.subject].args.id >= 10

\* Names denote the same definition iff their ids are equal (no code of
\* name.rs compares Names)
SameDefinition(a, b) == NameId(a) = NameId(b)

\* C13 (Name identity): id() returns the id given to Name::new, so two Names
\* built with different ids are different definitions whatever their ident
\* and path, two Names built with the same id are the same definition
\* whatever their ident and path, and Name::new accepts an id that is
\* already in use.
NameIdentity ==
    /\ \A i \in 1..Len(names) :
          /\ NameId(names[i].name) = names[i].args.id
          /\ NameIdent(names[i].name) = names[i].args.ident
          /\ NamePath(names[i].name) = names[i].args.path
    /\ \A i, j \in 1..Len(names) :
          SameDefinition(names[i].name, names[j].name)
              <=> names[i].args.id = names[j].args.id
    /\ (Len(names) < MaxNames) => ENABLED name_Name_new

\* two Names with the same ident and path and different ids, and in
\* another run two Names with the same id and different idents
NameIdentityWitness ==
    /\ Len(names) = 2
    /\ names[1].args.ident = names[2].args.ident
    /\ names[1].args.path = names[2].args.path
    /\ names[1].args.id # names[2].args.id

(***************************************************************************)
(* A Path and a ModulePath driven by the same calls: blastf_name's         *)
(* module.rs in the variables of the path model, name's module_path.rs in  *)
(* modpath                                                                 *)
(***************************************************************************)
\* ModulePath::new
ModulePathNew == [segments |-> <<>>, panicked |-> FALSE, ret |-> <<>>]

\* ModulePath::push: self.segments.push(ModulePathSegment { ident })
ModulePathPush(self, ident) ==
    [self EXCEPT !.segments = Append(@, ModulePathSegment(ident))]

\* ModulePath::pop_root: self.segments.remove(0)
ModulePathPopLast(self) ==
    IF self.segments = <<>> THEN [self EXCEPT !.panicked = TRUE]
    ELSE [self EXCEPT !.segments = SubSeq(@, 1, Len(@) - 1)]
ModulePathPopRoot(self) ==
    IF self.segments = <<>> THEN [self EXCEPT !.panicked = TRUE]
    ELSE [self EXCEPT !.segments = Tail(@)]

\* ModulePath::extend: self.segments.extend(other.segments)
ModulePathExtend(self, other) ==
    [self EXCEPT !.segments = @ \o other.segments]

\* ModulePath::get_root: self.segments.first().unwrap().ident.as_str()
ModulePathGetRoot(self) ==
    IF Len(self.segments) = 0 THEN [self EXCEPT !.panicked = TRUE, !.ret = Panic]
    ELSE [self EXCEPT !.ret = Head(self.segments).ident]

\* ModulePath::get_last: self.segments.last().unwrap().ident.as_str()
ModulePathGetLast(self) ==
    IF Len(self.segments) = 0 THEN [self EXCEPT !.panicked = TRUE, !.ret = Panic]
    ELSE [self EXCEPT !.ret = self.segments[Len(self.segments)].ident]

\* impl Display for ModulePath: the loop over the enumerated segments
RECURSIVE ModulePathFmt(_, _)
ModulePathFmt(self, i) ==
    IF i = 0 THEN <<>>
    ELSE ModulePathFmt(self, i - 1)
         \o (IF i - 1 > 0 THEN <<":", ":">> ELSE <<>>)
         \o self.segments[i].ident

ModulePathDisplay(self) == ModulePathFmt(self, Len(self.segments))

\* the ModulePath built from the same identifiers as a Path
RECURSIVE AsModulePath(_)
AsModulePath(segs) ==
    IF segs = <<>> THEN ModulePathNew
    ELSE ModulePathPush(AsModulePath(SubSeq(segs, 1, Len(segs) - 1)),
                        segs[Len(segs)].ident)

\* the same call on both objects
Pair_push ==
    \E ident \in Idents :
        /\ obj = "Pair"
        /\ push("Path", ident)
        /\ modpath' = ModulePathPush(modpath, ident)
Pair_pop_root ==
    /\ obj = "Pair"
    /\ pop_root("Path")
    /\ modpath' = ModulePathPopRoot(modpath)
Pair_extend ==
    \E other \in SeqsUpTo(Segs, MaxOther) :
        /\ obj = "Pair"
        /\ extend("Path", other)
        /\ modpath' = ModulePathExtend(modpath, AsModulePath(other))
Pair_get_root ==
    /\ obj = "Pair"
    /\ getter("get_root", get_root(segments))
    /\ modpath' = ModulePathGetRoot(modpath)
Pair_get_last ==
    /\ obj = "Pair"
    /\ getter("get_last", get_last(segments))
    /\ modpath' = ModulePathGetLast(modpath)

InitPair ==
    /\ obj = "Pair"
    /\ segments = <<>>
    /\ panicked = FALSE
    /\ lastOp = NoOp
    /\ before = <<>>
    /\ modpath = ModulePathNew
    /\ IdleVisit
    /\ IdleAux

NextPair ==
    \/ Pair_push
    \/ Pair_pop_root
    \/ Pair_extend
    \/ Pair_get_root
    \/ Pair_get_last

SpecPair == InitPair /\ [][NextPair]_vars

\* C14 (Path and ModulePath agree): after the same sequence of calls from
\* new(), a Path and a ModulePath hold the same identifiers, have panicked
\* in the same calls, have returned the same identifier from get_root()
\* and get_last(), and have the same display string.
PathsAgree ==
    /\ panicked = modpath.panicked
    /\ Len(segments) = Len(modpath.segments)
    /\ \A i \in 1..Len(segments) : segments[i].ident = modpath.segments[i].ident
    /\ lastOp.op \in {"get_root", "get_last"} => lastOp.ident = modpath.ret
    /\ Display(segments) = ModulePathDisplay(modpath)
    /\ ~panicked =>
          /\ get_root(segments) = ModulePathGetRoot(modpath).ret
          /\ get_last(segments) = ModulePathGetLast(modpath).ret

\* both have lost their root after growing to two segments or more, and in
\* another run both have panicked
PathsAgreeWitness ==
    /\ lastOp.op = "pop_root"
    /\ Len(before) >= 2
    /\ Len(modpath.segments) = Len(before) - 1
    /\ ~modpath.panicked

(***************************************************************************)
(* Instruction files: blastf_hmasm/src/ast.rs                              *)
(***************************************************************************)
\* struct Instruction { kind }, enum InstructionKind
Call(first, func, last) ==
    [kind |-> [variant |-> "Call", first |-> first, func |-> func, last |-> last]]
Command(cmd) == [kind |-> [variant |-> "Command", cmd |-> cmd]]
Chain(first, second) ==
    [kind |-> [variant |-> "Chain", first |-> first, second |-> second]]
BlockInstruction(block) == [kind |-> [variant |-> "Block", block |-> block]]
\* struct Block { instructions }
HmBlock(instructions) == [instructions |-> instructions]
\* struct Function { name, block }
Function(name, block) == [name |-> name, block |-> block]
\* struct File { path, functions }
File(path, functions) == [path |-> path, functions |-> functions]

\* impl Display for Instruction, impl Display for Block
RECURSIVE InstructionDisplay(_)
RECURSIVE BlockDisplay(_)
RECURSIVE BlockFmtLoopNoNewline(_, _, _)
RECURSIVE BlockFmtLoop(_, _, _)
InstructionDisplay(self) ==
    LET kind == self.kind
    IN  CASE kind.variant = "Call" ->
                 kind.first \o <<" ">> \o kind.func \o <<" ">> \o kind.last
          [] kind.variant = "Command" -> kind.cmd
          [] kind.variant = "Chain" ->
                 InstructionDisplay(kind.first) \o <<" ">> \o InstructionDisplay(kind.second)
          [] kind.variant = "Block" -> BlockDisplay(kind.block)

\* for instruction in &self.instructions { write!(f, "{}\n", instruction)?; }
BlockFmtLoopNoNewline(instructions, i, out) ==
    IF i >= Len(instructions) THEN out
    ELSE BlockFmtLoopNoNewline(instructions, i + 1,
                               out \o InstructionDisplay(instructions[i + 1]))
BlockFmtLoop(instructions, i, out) ==
    IF i >= Len(instructions) THEN out
    ELSE BlockFmtLoop(instructions, i + 1,
                      out \o InstructionDisplay(instructions[i + 1]) \o <<"\n">>)

\* write!(f, "{{\n")?; the loop; write!(f, "}}")?
BlockDisplay(self) == BlockFmtLoop(self.instructions, 0, <<"{", "\n">>) \o <<"}">>

\* impl Display for Function: write!(f, "{} {}", self.name, self.block)
FunctionDisplay(self) == self.name \o <<" ">> \o BlockDisplay(self.block)

\* for function in &self.functions { write!(f, "{}\n", function)?; }
RECURSIVE FileFmtLoop(_, _, _)
FileFmtLoop(functions, i, out) ==
    IF i >= Len(functions) THEN out
    ELSE FileFmtLoop(functions, i + 1,
                     out \o FunctionDisplay(functions[i + 1]) \o <<"\n">>)

\* impl Display for File: write!(f, "File: {}\n", self.path)?; the loop
FileDisplay(self) ==
    FileFmtLoop(self.functions, 0,
                <<"F", "i", "l", "e", ":", " ">> \o Display(self.path) \o <<"\n">>)

\* the strings of tests::test_all
SayHi == <<"s", "a", "y", " ", "h", "i">>
Bar == <<"b", "a", "r">>
RootFoo == <<NamePathSegment(<<"r", "o", "o", "t">>), NamePathSegment(<<"f", "o", "o">>)>>

\* instructions of every kind, nested both ways
Instructions ==
    LET say == Command(SayHi)
        run == Command(<<"r", "u", "n">>)
        call == Call(<<"f">>, Bar, <<"{", "}">>)
    IN  { say, call,
          Chain(run, say),
          Chain(run, Chain(run, call)),
          Chain(Chain(run, run), say),
          BlockInstruction(HmBlock(<<>>)),
          BlockInstruction(HmBlock(<<say, Chain(run, say)>>)),
          Chain(run, BlockInstruction(HmBlock(<<call>>))) }

Blocks == { HmBlock(is) : is \in SeqsUpTo(Instructions, MaxInstrs) }

\* the functions of the longer files
SomeFunctions ==
    { Function(Bar, HmBlock(<<Command(SayHi)>>)),
      Function(<<"f">>, HmBlock(<<>>)),
      Function(<<>>, HmBlock(<<Call(<<"f">>, Bar, <<"{", "}">>), Command(SayHi)>>)) }

\* files without functions, with one function of any block, and with
\* several functions
Files ==
    { File(path, functions) :
        path \in {<<>>, RootFoo},
        functions \in { <<Function(Bar, block)>> : block \in Blocks }
                      \cup SeqsUpTo(SomeFunctions, MaxFns) }

NoneShown == [subject |-> "none", item |-> <<>>, text |-> <<>>]

\* format!("{}", file)
File_fmt ==
    /\ shown' = [subject |-> "File", item |-> <<>>, text |-> FileDisplay(file)]
    /\ UNCHANGED <<names, file, modpath>>
    /\ UNCHANGED pathVars
    /\ UNCHANGED visitVars

\* format!("{}", function) for a function of the file
Function_fmt ==
    \E i \in 1..Len(file.functions) :
        /\ shown' = [subject |-> "Function", item |-> <<i>>,
                     text |-> FunctionDisplay(file.functions[i])]
        /\ UNCHANGED <<names, file, modpath>>
        /\ UNCHANGED pathVars
        /\ UNCHANGED visitVars

\* format!("{}", block) for the block of a function of the file
Block_fmt ==
    \E i \in 1..Len(file.functions) :
        /\ shown' = [subject |-> "Block", item |-> <<i>>,
                     text |-> BlockDisplay(file.functions[i].block)]
        /\ UNCHANGED <<names, file, modpath>>
        /\ UNCHANGED pathVars
        /\ UNCHANGED visitVars

\* format!("{}", instruction) for an instruction of such a block
Instruction_fmt ==
    \E i \in 1..Len(file.functions) :
        \E j \in 1..Len(file.functions[i].block.instructions) :
            /\ shown' = [subject |-> "Instruction", item |-> <<i, j>>,
                         text |-> InstructionDisplay(file.functions[i].block.instructions[j])]
            /\ UNCHANGED <<names, file, modpath>>
            /\ UNCHANGED pathVars
            /\ UNCHANGED visitVars

InitHmasm ==
    /\ IdlePath
    /\ IdleVisit
    /\ modpath = NoModPath
    /\ names = <<>>
    /\ file \in Files
    /\ shown = NoneShown

NextHmasm ==
    \/ File_fmt
    \/ Function_fmt
    \/ Block_fmt
    \/ Instruction_fmt

SpecHmasm == InitHmasm /\ [][NextHmasm]_vars

\* the concatenation of a sequence of strings
RECURSIVE Concat(_)
Concat(ss) == IF ss = <<>> THEN <<>> ELSE Head(ss) \o Concat(Tail(ss))

\* the rendering of an instruction, a block, a function and a file, each
\* line followed by a newline
RECURSIVE RenderInstruction(_)
RECURSIVE RenderBlock(_)
RenderInstruction(i) ==
    LET k == i.kind
    IN  IF k.variant = "Command" THEN k.cmd
        ELSE IF k.variant = "Call" THEN Concat(<<k.first, <<" ">>, k.func, <<" ">>, k.last>>)
        ELSE IF k.variant = "Chain"
             THEN Concat(<<RenderInstruction(k.first), <<" ">>, RenderInstruction(k.second)>>)
        ELSE RenderBlock(k.block)
RenderBlock(b) ==
    Concat(<<<<"{", "\n">>>>
           \o [n \in 1..Len(b.instructions) |->
                 RenderInstruction(b.instructions[n]) \o <<"\n">>]
           \o <<<<"}">>>>)
RenderFunction(fn) == Concat(<<fn.name, <<" ">>, RenderBlock(fn.block)>>)
RenderFile(fl) ==
    Concat(<<<<"F", "i", "l", "e", ":", " ">>, Joined(fl.path), <<"\n">>>>
           \o [n \in 1..Len(fl.functions) |-> RenderFunction(fl.functions[n]) \o <<"\n">>])

\* the file of tests::test_all and the string the test expects
TestFile == File(RootFoo, <<Function(Bar, HmBlock(<<Command(SayHi)>>))>>)
TestText ==
    <<"F", "i", "l", "e", ":", " ", "r", "o", "o", "t", ":", ":", "f", "o", "o", "\n",
      "b", "a", "r", " ", "{", "\n",
      "s", "a", "y", " ", "h", "i", "\n",
      "}", "\n">>

\* the number of newlines in a string
RECURSIVE Newlines(_)
Newlines(text) ==
    IF text = <<>> THEN 0
    ELSE (IF Head(text) = "\n" THEN 1 ELSE 0) + Newlines(Tail(text))

\* C15 (instruction-file rendering): a File displays as "File: ", its path
\* and a newline, then each function as its name, a space, its block and a
\* newline; a block as "{" and a newline, each instruction followed by a
\* newline, and "}"; a Command as its text, a Chain as its two instructions
\* separated by a space, a Call as its three strings separated by spaces.
FileRendering ==
    /\ shown.subject = "File" =>
          /\ shown.text = RenderFile(file)
          /\ file = TestFile => shown.text = TestText
          /\ shown.text[Len(shown.text)] = "\n"
    /\ shown.subject = "Function" =>
          LET fn == file.functions[shown.item[1]]
          IN  /\ shown.text = RenderFunction(fn)
              /\ shown.text[Len(shown.text)] = "}"
    /\ shown.subject = "Block" =>
          LET b == file.functions[shown.item[1]].block
          IN  /\ shown.text = RenderBlock(b)
              /\ Newlines(shown.text) >= 1 + Len(b.instructions)
              /\ b.instructions = <<>> => shown.text = <<"{", "\n", "}">>
    /\ shown.subject = "Instruction" =>
          LET i == file.functions[shown.item[1]].block.instructions[shown.item[2]]
          IN  /\ shown.text = RenderInstruction(i)
              /\ i.kind.variant = "Command" => shown.text = i.kind.cmd
              /\ i.kind.variant = "Call" =>
                    Len(shown.text) = Len(i.kind.first) + Len(i.kind.func)
                                      + Len(i.kind.last) + 2

\* the file of tests::test_all was displayed
FileRenderingWitness ==
    /\ shown.subject = "File"
    /\ file = TestFile
    /\ shown.text = TestText

(***************************************************************************)
(* Properties of the traversal protocol, continued                         *)
(***************************************************************************)
\* the apply call on this address succeeded with continue = true
Continued(a) == a \notin cut /\ ~(failure.variant = "Some" /\ failure.addr = a)

\* the number of apply calls made on nodes of a kind
Count(kind) == Cardinality({ i \in 1..Len(seen) : seen[i].node = kind })

\* the number of nodes of a kind in a tree
NodesOf(t, kind) ==
    LET all == PreOrder(t, <<>>)
    IN  Cardinality({ i \in 1..Len(all) : NodeAt(t, all[i]).node = kind })

\* C16 (end-to-end example): when a visitor that always continues and never
\* fails has been driven over a tree, apply was called on as many Constant
\* nodes as the tree has; over { let x = 5; } that is exactly once.
ConstantCount ==
    (result.variant = "Ok" /\ cut = {} /\ ~visitor.rewrites) =>
        /\ Count("Constant") = NodesOf(orig, "Constant")
        /\ orig = LetProgram => Count("Constant") = 1

\* the count over { let x = 5; } is 1
ConstantCountWitness ==
    /\ result.variant = "Ok"
    /\ cut = {}
    /\ orig = LetProgram
    /\ Count("Constant") = 1

\* C17 (Ty recursion): after apply on a Ty has succeeded with continue = true
\* the next apply call is on the nested Path if the Ty's kind is Path; below
\* a Ty of kind Void, Int, Float, Bool or String no apply call is ever made;
\* and the visit on the Ty returns the payload apply returned for the Ty.
TyRecursion ==
    \A i \in 1..Len(log) :
        seen[i].node = "Ty" =>
            LET a == log[i]
                inner == Append(a, Sel("kind"))
                isPath == seen[i].kind.variant = "Path"
            IN  /\ ~isPath => \A j \in 1..Len(log) : ~Descendant(a, log[j])
                /\ (isPath /\ Continued(a) /\ i < Len(log)) =>
                      /\ log[i + 1] = inner
                      /\ seen[i + 1] = seen[i].kind.payload
                /\ Logged(inner) <=> (isPath /\ Continued(a) /\ i < Len(log))
                /\ \A r \in returned :
                      r.addr = a =>
                          /\ r.val = PayloadOf(visitor, seen[i])
                          /\ Continued(a) => (Returned(inner) <=> isPath)

\* a Ty of kind Path has returned after its Path was visited, and a Ty of
\* another kind has returned too
TyRecursionWitness ==
    /\ \E i \in 1..Len(log) :
          /\ seen[i].node = "Ty"
          /\ seen[i].kind.variant = "Path"
          /\ Continued(log[i])
          /\ Returned(log[i])
          /\ visitor.payload = "kind"
    /\ \E i \in 1..Len(log) :
          /\ seen[i].node = "Ty"
          /\ seen[i].kind.variant = "Int"
          /\ Continued(log[i])
          /\ Returned(log[i])

\* C18 (default visitor): with a visitor that does not override apply every
\* apply call returns continue = true and no payload, so nothing is cut off,
\* nothing fails, every visit returns no payload, the top-level visit
\* returns Ok(None) after the full traversal, and the tree stays as it was;
\* with any visitor that does not rewrite nodes the tree stays as it was.
DefaultPassThrough ==
    /\ visitor.impl = "default" =>
          /\ cut = {}
          /\ failure = NoFailure
          /\ \A r \in returned : r.val = None
          /\ result \in {Running, Ok(None)}
          /\ result = Ok(None) => log = Walk(orig, <<>>, {})
          /\ \A i \in 1..Len(log) : ~rewrote[i] /\ seen[i] = NodeAt(orig, log[i])
    /\ ~visitor.rewrites => tree = orig

\* the default visitor has been driven over a whole function definition
DefaultPassThroughWitness ==
    /\ visitor.impl = "default"
    /\ result = Ok(None)
    /\ orig = FnProgram(Width)
    /\ Returned(<<>>)

\* the node at the i-th apply call as that call left it
Post(i) == IF rewrote[i] THEN Rewrite(seen[i]) ELSE seen[i]

\* b is a child of a
ChildOf(a, b) == Len(b) = Len(a) + 1 /\ SubSeq(b, 1, Len(a)) = a

\* the steps of a sequence
Range(steps) == { steps[n] : n \in 1..Len(steps) }

\* C19 (children after apply): the children visit recurses into are those of
\* the node as apply left it.  Every apply call on a child of a node is on a
\* child the node had after its own apply call, and is made on that child as
\* installed; once the visit on a node that continued has returned, all of
\* those children were visited; so a child that apply removed gets no call.
ChildrenAfterApply ==
    \A i \in 1..Len(log) :
        LET a == log[i]
            kids == IF Continued(a) THEN Range(VisitChildren(Post(i), TRUE)) ELSE {}
            lost == Range(VisitChildren(seen[i], TRUE)) \ kids
        IN  /\ \A j \in 1..Len(log) :
                  ChildOf(a, log[j]) =>
                      /\ j > i
                      /\ log[j][Len(log[j])] \in kids
                      /\ seen[j] = Child(Post(i), log[j][Len(log[j])])
            /\ Returned(a) => \A step \in kids : Logged(Append(a, step))
            /\ \A step \in lost : ~Logged(Append(a, step))
            /\ result # Running => (Returned(a) \/ failure.variant = "Some")

\* in one run apply removed the body of an Fn and turned a Ty of kind Path
\* into one of kind Void, and another Ty into one of kind Path whose Path
\* was then visited
ChildrenAfterApplyWitness ==
    /\ result.variant = "Ok"
    /\ \E i \in 1..Len(log) :
          /\ rewrote[i]
          /\ seen[i].node = "Fn"
          /\ seen[i].body.variant = "Some"
          /\ Continued(log[i])
    /\ \E i \in 1..Len(log) :
          /\ rewrote[i]
          /\ seen[i].node = "Ty"
          /\ seen[i].kind.variant = "Path"
          /\ Continued(log[i])

\* the tree the apply calls made so far leave, from the i-th on
RECURSIVE Replay(_, _)
Replay(t, i) ==
    IF i > Len(log) THEN t
    ELSE Replay(IF rewrote[i] THEN ReplaceAt(t, log[i], Rewrite(seen[i])) ELSE t, i + 1)

\* apply has rewritten the node at this address or one above it
Touched(b) ==
    \E i \in 1..Len(log) : rewrote[i] /\ (log[i] = b \/ Descendant(log[i], b))

Termination ==
    /\ [](/\ result = Running => CallPending
          /\ \A i, j \in 1..Len(log) : log[i] = log[j] => i = j
          /\ \A i \in 1..Len(log) : NodeAt(orig, log[i]) # Missing
          /\ Len(log) <= Len(PreOrder(orig, <<>>)))
    /\ <>(result # Running)

\* the top-level visit has returned a success after apply was called on
\* more than ten nodes, each once
TerminationWitness ==
    /\ result.variant = "Ok"
    /\ Len(log) > 10
    /\ Cardinality({ log[i] : i \in 1..Len(log) }) = Len(log)

====
